---- MODULE Spec2Model ----
(***************************************************************************)
(* A model of src/main.ts: the HTTP gateway with the publish pipeline      *)
(* (handlePublish), the asset proxy (handleAssetProxy) and the serve       *)
(* callback that dispatches requests and serves static files.              *)
(*                                                                         *)
(* One request is in flight at a time: the handlers share no mutable       *)
(* state, so concurrent requests cannot influence each other.  A request   *)
(* is handled in one step up to its outbound fetch; the fetch settling     *)
(* (a response or a thrown error, chosen by the environment) is a second   *)
(* step that runs the rest of the handler.                                 *)
(*                                                                         *)
(* Bytes are integers 0..255, decoded text is a sequence of code points,   *)
(* file names and URLs are sequences of one-character strings.             *)
(***************************************************************************)
EXTENDS Integers, Sequences, FiniteSets, TLC

VARIABLES req, pc, outbound, upstream, resp

vars == <<req, pc, outbound, upstream, resp>>

(***************************************************************************)
(* Bounds of the model.                                                    *)
(***************************************************************************)
\* Longest run of extra bytes that follows the 14-byte signature in a payload.
MaxTail == 1

(***************************************************************************)
(* Sequence helpers shared by the byte, text and file-name operators.      *)
(***************************************************************************)
\* Array.prototype.slice(0, n) / Uint8Array.prototype.slice(0, n).
Slice(s, n) == SubSeq(s, 1, IF Len(s) < n THEN Len(s) ELSE n)

\* String.prototype.substring(from) with a 0-based start index.
Substring(s, from) == SubSeq(s, from + 1, Len(s))

\* String.prototype.startsWith(prefix).
StartsWith(s, prefix) ==
    /\ Len(s) >= Len(prefix)
    /\ \A i \in 1..Len(prefix) : s[i] = prefix[i]

\* String.prototype.indexOf(pat): the 0-based index of the first match, -1 if none.
IndexOf(s, pat) ==
    LET At(i) == \A j \in 1..Len(pat) : s[i + j - 1] = pat[j]
        last == Len(s) - Len(pat) + 1
    IN  IF \E i \in 1..last : At(i)
        THEN (CHOOSE i \in 1..last : At(i) /\ \A k \in 1..(i - 1) : ~At(k)) - 1
        ELSE -1

\* The code points String.prototype.trimStart removes (WhiteSpace and
\* LineTerminator of ECMAScript).
WhiteSpace ==
    {9, 10, 11, 12, 13, 32, 160, 5760, 8232, 8233, 8239, 8287, 12288, 65279}
        \cup (8192..8202)

\* String.prototype.trimStart().
TrimStart(s) ==
    LET Kept(i) == s[i] \notin WhiteSpace
    IN  IF \E i \in 1..Len(s) : Kept(i)
        THEN SubSeq(s, CHOOSE i \in 1..Len(s) : Kept(i) /\ \A k \in 1..(i - 1) : ~Kept(k),
                    Len(s))
        ELSE <<>>

\* TextDecoder.decode (UTF-8, non-fatal) on the bytes the model draws: an ASCII
\* byte is its own code point, a byte that starts no valid UTF-8 sequence
\* (0x89 and 0xFF here, never after a lead byte) becomes U+FFFD.
Decode(bytes) == [i \in 1..Len(bytes) |-> IF bytes[i] < 128 THEN bytes[i] ELSE 65533]

UpperCase ==
    <<"A", "B", "C", "D", "E", "F", "G", "H", "I", "J", "K", "L", "M", "N", "O",
      "P", "Q", "R", "S", "T", "U", "V", "W", "X", "Y", "Z">>

LowerCase ==
    <<"a", "b", "c", "d", "e", "f", "g", "h", "i", "j", "k", "l", "m", "n", "o",
      "p", "q", "r", "s", "t", "u", "v", "w", "x", "y", "z">>

\* String.prototype.toLowerCase() on ASCII text.
ToLowerCase(s) ==
    [i \in 1..Len(s) |->
        IF \E k \in 1..Len(UpperCase) : UpperCase[k] = s[i]
        THEN LowerCase[CHOOSE k \in 1..Len(UpperCase) : UpperCase[k] = s[i]]
        ELSE s[i]]

\* filename.split('.').pop(): the text after the last '.', the whole name when
\* it holds no '.'.
SplitPop(s) ==
    LET dots == {i \in 1..Len(s) : s[i] = "."}
    IN  IF dots = {} THEN s
        ELSE SubSeq(s, (CHOOSE i \in dots : \A j \in dots : j <= i) + 1, Len(s))

(***************************************************************************)
(* Headers.  A Headers object keys its entries by lower-cased name.        *)
(***************************************************************************)
\* Later entries win, as in an object spread and in Headers.set.
Merge(f, g) ==
    [k \in (DOMAIN f) \cup (DOMAIN g) |-> IF k \in DOMAIN g THEN g[k] ELSE f[k]]

corsHeaders ==
    ("access-control-allow-origin" :> "*")
        @@ ("access-control-allow-headers" :> "Content-Type")
        @@ ("access-control-allow-methods" :> "POST, GET, OPTIONS")

\* { "Content-Type": "application/json", ...corsHeaders }
JsonHeaders == Merge("content-type" :> "application/json", corsHeaders)

NoHeaders == [k \in {} |-> ""]

(***************************************************************************)
(* Responses.  site is the source line of the Response the handler built   *)
(* (182 for a Response that serveDir built).                               *)
(***************************************************************************)
NullBody == [kind |-> "null", text |-> ""]
TextBody(t) == [kind |-> "text", text |-> t]
StreamBody == [kind |-> "stream", text |-> ""]

Response(site, status, headers, body) ==
    [site |-> site, status |-> status, headers |-> headers, body |-> body]

NoResp == Response(0, 0, NoHeaders, NullBody)

\* Statuses for which the Response constructor accepts no body.
NullBodyStatus == {101, 103, 204, 205, 304}

\* JSON.stringify({ error: msg }) for a message that needs no escaping.
ErrorJson(msg) == "{\"error\":\"" \o msg \o "\"}"

JsonError(site, status, msg) ==
    Response(site, status, JsonHeaders, TextBody(ErrorJson(msg)))

\* new Response(body, { status, headers }): the constructor throws a RangeError
\* for a status that is not 101 and lies outside 200..599, and a TypeError for
\* a body given with a null-body status.
NewResponse(site, status, headers, body) ==
    IF (status < 200 \/ status > 599) /\ status # 101
    THEN [threw |-> TRUE, message |-> "The status provided is outside the range [200, 599]",
          resp |-> NoResp]
    ELSE IF body.kind # "null" /\ status \in NullBodyStatus
    THEN [threw |-> TRUE, message |-> "Response with null body status cannot have body",
          resp |-> NoResp]
    ELSE [threw |-> FALSE, message |-> "", resp |-> Response(site, status, headers, body)]

(***************************************************************************)
(* Multipart form fields.  formData.get returns null for an absent field,  *)
(* a string for a text field and a File for a file field.                  *)
(***************************************************************************)
Absent == [kind |-> "absent", value |-> "", name |-> <<>>, data |-> <<>>]
StringField(v) == [kind |-> "string", value |-> v, name |-> <<>>, data |-> <<>>]
FileField(n, d) == [kind |-> "file", value |-> "", name |-> n, data |-> d]

\* JavaScript truthiness of a formData.get result: null and "" are falsy.
Truthy(f) == f.kind = "file" \/ (f.kind = "string" /\ f.value # "")

(***************************************************************************)
(* handlePublish, src/main.ts lines 58-160.                                *)
(***************************************************************************)
\* A faulty variant of line 68 that forgets versionType.
MissingRequired_FourFields(form) ==
    \/ ~Truthy(form.placeFile)
    \/ ~Truthy(form.apiKey)
    \/ ~Truthy(form.universeId)
    \/ ~Truthy(form.placeId)

\* Line 68: !file || !apiKey || !universeId || !placeId || !versionType
MissingRequired(form) ==
    \/ ~Truthy(form.placeFile)
    \/ ~Truthy(form.apiKey)
    \/ ~Truthy(form.universeId)
    \/ ~Truthy(form.placeId)
    \/ ~Truthy(form.versionType)

\* Line 75: file.name || '' (a string field has no name property).
filename(file) == IF file.kind = "file" THEN file.name ELSE <<>>

\* Line 76: filename.split('.').pop()?.toLowerCase() || ''
ext(file) == ToLowerCase(SplitPop(filename(file)))

RBXL == <<"r", "b", "x", "l">>
RBXLX == <<"r", "b", "x", "l", "x">>

\* Line 77.
allowedExtensions == {RBXL, RBXLX}

\* Line 79: filename === '' || !allowedExtensions.includes(ext)
ExtensionRejected(file) ==
    filename(file) = <<>> \/ ext(file) \notin allowedExtensions

\* Line 98: the prefix of the payload that is decoded.
HeadLimit == 2048

XmlDeclOpen == <<60, 63, 120, 109, 108>>
XmlDeclClose == <<63, 62>>
RobloxTag == <<60, 114, 111, 98, 108, 111, 120>>

\* A faulty variant of lines 98-104 that does not trim before looking for the
\* declaration.
XmlHead_NoLeadingTrim(fileData) ==
    LET head == Decode(Slice(fileData, HeadLimit))
        idx == IndexOf(head, XmlDeclClose)
    IN  IF StartsWith(head, XmlDeclOpen) /\ idx # -1
        THEN TrimStart(Substring(head, idx + 2))
        ELSE TrimStart(head)

\* Lines 98-104: the text the root-tag test looks at.
XmlHead(fileData) ==
    LET head == TrimStart(Decode(Slice(fileData, HeadLimit)))
        idx == IndexOf(head, XmlDeclClose)
    IN  IF StartsWith(head, XmlDeclOpen) /\ idx # -1
        THEN TrimStart(Substring(head, idx + 2))
        ELSE head

\* A variant of line 105 that wants the whole tag name: <roblox followed by
\* '>' or a space.
XmlHeaderRejected_WholeTag(fileData) ==
    ~(\/ StartsWith(XmlHead(fileData), RobloxTag \o <<62>>)
      \/ StartsWith(XmlHead(fileData), RobloxTag \o <<32>>))

\* Line 105: !head.startsWith('<roblox')
XmlHeaderRejected(fileData) == ~StartsWith(XmlHead(fileData), RobloxTag)

\* Line 113.
expected == <<60, 114, 111, 98, 108, 111, 120, 33, 137, 255, 13, 10, 26, 10>>

\* A faulty variant of line 114 without the length comparison.
mismatch_NoLengthCheck(fileData) ==
    LET sig == Slice(fileData, 14)
    IN  \E i \in 1..Len(sig) : sig[i] # expected[i]

\* Lines 112-114: sig.length !== expected.length || sig.some(...)
mismatch(fileData) ==
    LET sig == Slice(fileData, 14)
    IN  \/ Len(sig) # Len(expected)
        \/ \E i \in 1..Len(sig) : sig[i] # expected[i]

\* A faulty variant of line 125 that tests for the other extension.
contentType_Swapped(e) ==
    IF e = RBXL THEN "application/xml" ELSE "application/octet-stream"

\* Line 125.
contentType(e) == IF e = RBXLX THEN "application/xml" ELSE "application/octet-stream"

\* Line 124.
robloxApiUrl(form) ==
    "https://apis.roblox.com/universes/v1/" \o form.universeId.value
        \o "/places/" \o form.placeId.value
        \o "/versions?versionType=" \o form.versionType.value

\* Lines 127-132.
apiHeaders(form) ==
    ("x-api-key" :> form.apiKey.value)
        @@ ("content-type" :> contentType(ext(form.placeFile)))
        @@ ("accept" :> "application/json, text/plain;q=0.9, */*;q=0.1")
        @@ ("user-agent" :> "roblox-publisher/1.0")

\* Lines 134-138: the request handed to fetch.
PublishRequest(form) ==
    [url |-> robloxApiUrl(form), method |-> "POST",
     headers |-> apiHeaders(form), body |-> form.placeFile.data]

\* A faulty variant of lines 154-159 that answers with the bare message.
PublishCatch_PlainText(message) ==
    Response(155, 500, corsHeaders, TextBody("Server error: " \o message))

\* Lines 154-159: the handler's catch block.
PublishCatch(message) == JsonError(155, 500, "Server error: " \o message)

\* Lines 68-121: the validation chain; site 0 stands for "passed".
Validate(form) ==
    IF MissingRequired(form)
    THEN JsonError(69, 400, "Missing required form fields")
    ELSE IF ExtensionRejected(form.placeFile)
    THEN JsonError(80, 400, "No selected file or file type not allowed (.rbxl, .rbxlx only)")
    ELSE IF Len(form.placeFile.data) = 0
    THEN JsonError(89, 400, "Uploaded file is empty")
    ELSE IF ext(form.placeFile) = RBXLX
    THEN IF XmlHeaderRejected(form.placeFile.data)
         THEN JsonError(106, 400, "RBXLX must start with <roblox (XML declaration allowed); got invalid XML header")
         ELSE NoResp
    ELSE IF mismatch(form.placeFile.data)
         THEN JsonError(116, 400, "RBXL signature mismatch. Ensure you're sending a valid .rbxl file.")
         ELSE NoResp

(***************************************************************************)
(* The response translator, lines 140-152.                                 *)
(***************************************************************************)
\* JSON.parse followed by JSON.stringify on the upstream bodies of the model:
\* the canonical text of a body that parses, "" standing for a SyntaxError.
JsonRoundTrip(text) ==
    CASE text = "{\"versionNumber\": 7}" -> "{\"versionNumber\":7}"
      [] text = "{\"error\":\"denied\"}" -> "{\"error\":\"denied\"}"
      [] text = " null " -> "null"
      [] OTHER -> ""

\* JSON.stringify of a string: quotes and backslashes are escaped.
JsonString(text) ==
    CASE text = "say \"hi\"" -> "\"say \\\"hi\\\"\""
      [] OTHER -> "\"" \o text \o "\""

\* Lines 141-147 and the JSON.stringify of line 149.
responseData(responseText) ==
    IF JsonRoundTrip(responseText) # ""
    THEN JsonRoundTrip(responseText)
    ELSE "{\"message\":" \o JsonString(responseText) \o "}"

\* Lines 149-152, with the catch of line 154 around the constructor.
Translate(status, responseText) ==
    LET made == NewResponse(149, status, JsonHeaders, TextBody(responseData(responseText)))
    IN  IF made.threw THEN PublishCatch(made.message) ELSE made.resp

(***************************************************************************)
(* handleAssetProxy, lines 15-55.                                          *)
(***************************************************************************)
TrustedPrefix ==
    <<"h", "t", "t", "p", "s", ":", "/", "/", "a", "s", "s", "e", "t", "d", "e",
      "l", "i", "v", "e", "r", "y", ".", "r", "o", "b", "l", "o", "x", ".", "c",
      "o", "m", "/", "v", "1", "/", "a", "s", "s", "e", "t", "/">>

\* Lines 19-31: the two checks on the url query parameter; site 0 is "passed".
ValidateAssetUrl(assetUrl) ==
    IF ~assetUrl.present \/ assetUrl.value = <<>>
    THEN JsonError(20, 400, "No asset URL provided")
    ELSE IF ~StartsWith(assetUrl.value, TrustedPrefix)
    THEN JsonError(27, 400, "Invalid asset URL")
    ELSE NoResp

\* Lines 49-54.
AssetCatch(message) == JsonError(50, 502, "Failed to fetch asset: " \o message)

\* Lines 39-48: the upstream headers with the cross-origin headers set on top,
\* the upstream body streamed through.
ProxyAsset(status, headers, body) ==
    LET made == NewResponse(44, status, Merge(headers, corsHeaders), body)
    IN  IF made.threw THEN AssetCatch(made.message) ELSE made.resp

(***************************************************************************)
(* The serve callback, lines 163-201.                                      *)
(***************************************************************************)
\* Lines 167-177: which branch handles the request.
Route(method, path) ==
    IF method = "OPTIONS" THEN "options"
    ELSE IF path = "/publish" /\ method = "POST" THEN "publish"
    ELSE IF path = "/asset" THEN "asset"
    ELSE "static"

\* Line 168.
Preflight == Response(168, 204, corsHeaders, NullBody)

\* Lines 181-194: what serveDir returned or the Response built for what it threw.
StaticResponse(outcome) ==
    CASE outcome = "file" ->
            Response(182, 200, "content-type" :> "text/html", StreamBody)
      [] outcome = "absent" ->
            Response(182, 404, "content-type" :> "text/plain;charset=UTF-8",
                     TextBody("Not Found"))
      [] outcome = "NotFound" ->
            Response(190, 404, "content-type" :> "text/plain;charset=UTF-8",
                     TextBody("Not Found"))
      [] OTHER ->
            Response(192, 500, "content-type" :> "text/plain;charset=UTF-8",
                     TextBody("Internal Server Error"))

\* A faulty variant of lines 197-199 that leaves the static response as it is.
AddCors_Skipped(response) == response

\* Lines 197-199: response.headers.set for each of the cross-origin headers.
AddCors(response) == [response EXCEPT !.headers = Merge(@, corsHeaders)]

(***************************************************************************)
(* The inputs the model draws.                                             *)
(***************************************************************************)
TailBytes == {0, 60}

RECURSIVE SeqsUpTo(_, _)
SeqsUpTo(S, n) ==
    IF n = 0 THEN {<<>>}
    ELSE LET shorter == SeqsUpTo(S, n - 1)
         IN  shorter \cup {Append(t, b) : t \in shorter, b \in S}

Spaces(n) == [i \in 1..n |-> 32]

\* Payloads around the binary signature: the signature with a tail, each of
\* its proper prefixes, and the signature with one byte changed.
BinaryPayloads ==
    {expected \o t : t \in SeqsUpTo(TailBytes, MaxTail)}
        \cup {SubSeq(expected, 1, k) : k \in 0..(Len(expected) - 1)}
        \cup {[expected EXCEPT ![i] = (@ + 1) % 256] : i \in 1..Len(expected)}

XmlWithDeclaration ==
    <<60, 63, 120, 109, 108, 32, 118, 101, 114, 115, 105, 111, 110, 61, 34, 49,
      46, 48, 34, 63, 62, 60, 114, 111, 98, 108, 111, 120, 62, 46, 46, 46, 60,
      47, 114, 111, 98, 108, 111, 120, 62>>

RobloxBad == <<60, 114, 111, 98, 108, 111, 120, 66, 65, 68, 62, 46, 46, 46>>

SpaceBeforeDeclaration ==
    <<32, 10, 60, 63, 120, 109, 108, 63, 62, 10, 32, 60, 114, 111, 98, 108, 111,
      120, 62>>

XmlPayloads ==
    { XmlWithDeclaration,
      RobloxBad,
      SpaceBeforeDeclaration,
      RobloxTag \o <<62>>,
      <<32, 9>> \o RobloxTag \o <<62>>,
      <<60, 114, 98, 120, 62>>,
      XmlDeclOpen \o <<32>> \o RobloxTag \o <<62>>,
      XmlDeclOpen \o XmlDeclClose \o <<104, 105>>,
      Spaces(HeadLimit - Len(RobloxTag)) \o RobloxTag \o <<62>>,
      Spaces(HeadLimit - Len(RobloxTag) + 1) \o RobloxTag \o <<62>>,
      XmlDeclOpen \o Spaces(HeadLimit) \o XmlDeclClose \o RobloxTag \o <<62>> }

Payloads == BinaryPayloads \cup XmlPayloads

FileNames ==
    { <<"p", ".", "r", "b", "x", "l">>,
      <<"p", ".", "r", "b", "x", "l", "x">>,
      <<"P", ".", "R", "B", "X", "L">>,
      <<"P", ".", "R", "b", "x", "L", "X">>,
      <<"a", ".", "b", ".", "r", "b", "x", "l">>,
      <<".", "r", "b", "x", "l">>,
      <<"r", "b", "x", "l">>,
      <<"r", "b", "x", "l", "x">>,
      <<"p">>,
      <<"p", ".", "t", "x", "t">>,
      <<"p", ".", "r", "b", "x", "l", ".">>,
      <<>> }

FileFields ==
    {Absent, StringField("place")} \cup {FileField(n, d) : n \in FileNames, d \in Payloads}

TextFields(v) == {Absent, StringField(""), StringField(v)}

NoForm ==
    [parsed |-> FALSE, message |-> "", placeFile |-> Absent, apiKey |-> Absent,
     universeId |-> Absent, placeId |-> Absent, versionType |-> Absent]

\* The forms req.formData() yields, and a body it cannot parse.
Forms ==
    [parsed : {TRUE}, message : {""}, placeFile : FileFields,
     apiKey : TextFields("key"), universeId : TextFields("11"),
     placeId : TextFields("22"), versionType : TextFields("Published")]
        \cup {[NoForm EXCEPT !.message = "Body can not be decoded as form data"]}

NoUrl == [present |-> FALSE, value |-> <<>>]

AssetUrls ==
    { NoUrl,
      [present |-> TRUE, value |-> <<>>],
      [present |-> TRUE, value |-> TrustedPrefix \o <<"?", "i", "d", "=", "1">>],
      [present |-> TRUE, value |-> SubSeq(TrustedPrefix, 1, Len(TrustedPrefix) - 1)],
      [present |-> TRUE, value |-> <<"h", "t", "t", "p", ":", "/", "/", "x", "/">>] }

Methods == {"GET", "POST", "OPTIONS", "PUT"}
Paths == {"/publish", "/asset", "/index.html", "/"}

PublishRequests ==
    {[method |-> "POST", path |-> "/publish", form |-> f, assetUrl |-> NoUrl] : f \in Forms}

OtherRequests ==
    {r \in [method : Methods, path : Paths, form : {NoForm}, assetUrl : AssetUrls] :
        /\ Route(r.method, r.path) # "publish"
        /\ r.path # "/asset" => r.assetUrl = NoUrl}

Requests == PublishRequests \cup OtherRequests

\* The requests each branch of the serve callback receives.
Routed(route) == {r \in Requests : Route(r.method, r.path) = route}
OptionsRequests == Routed("options")
PublishRouted == Routed("publish")
AssetRequests == Routed("asset")
StaticRequests == Routed("static")

NoReq == [method |-> "", path |-> "", form |-> NoForm, assetUrl |-> NoUrl]

\* What the versioning API may answer, and how a fetch may fail.
UpstreamStatuses == {200, 204, 400, 409, 500}
UpstreamBodies ==
    {"", "OK", "{\"versionNumber\": 7}", "{\"error\":\"denied\"}", " null ",
     "<html>busy</html>", "say \"hi\""}
FetchErrors == {"error sending request", "dns error: failed to lookup address"}

AssetStatuses == {200, 204, 403, 404}
AssetHeaders ==
    { NoHeaders,
      "content-type" :> "application/octet-stream",
      ("content-type" :> "application/octet-stream")
          @@ ("access-control-allow-origin" :> "https://www.roblox.com") }
StaticOutcomes == {"file", "absent", "NotFound", "Other"}

NoUpstream == [kind |-> "none", status |-> 0, text |-> "", message |-> ""]
UpstreamResponse(status, text) ==
    [kind |-> "response", status |-> status, text |-> text, message |-> ""]
UpstreamThrow(message) ==
    [kind |-> "throw", status |-> 0, text |-> "", message |-> message]

(***************************************************************************)
(* The state machine.                                                      *)
(***************************************************************************)
Init ==
    /\ req = NoReq
    /\ pc = "idle"
    /\ outbound = <<>>
    /\ upstream = NoUpstream
    /\ resp = NoResp

\* Line 168: the preflight answer.
ServeOptions ==
    /\ pc = "idle"
    /\ \E r \in OptionsRequests :
        /\ req' = r
        /\ resp' = Preflight
        /\ pc' = "done"
        /\ UNCHANGED <<outbound, upstream>>

\* Lines 58-138: handlePublish up to the fetch of line 134.
handlePublish ==
    /\ pc = "idle"
    /\ \E r \in PublishRouted :
        /\ req' = r
        /\ upstream' = upstream
        /\ IF ~r.form.parsed
           THEN /\ resp' = PublishCatch(r.form.message)
                /\ pc' = "done"
                /\ outbound' = outbound
           ELSE IF Validate(r.form) # NoResp
           THEN /\ resp' = Validate(r.form)
                /\ pc' = "done"
                /\ outbound' = outbound
           ELSE /\ outbound' = Append(outbound, PublishRequest(r.form))
                /\ pc' = "publishFetch"
                /\ resp' = resp

\* Lines 140-152: the fetch of line 134 resolved with a response.
PublishFetchResolved(status, text) ==
    /\ pc = "publishFetch"
    /\ upstream' = UpstreamResponse(status, text)
    /\ resp' = Translate(status, text)
    /\ pc' = "done"
    /\ UNCHANGED <<req, outbound>>

\* Lines 154-159: the fetch of line 134 threw.
PublishFetchRejected(message) ==
    /\ pc = "publishFetch"
    /\ upstream' = UpstreamThrow(message)
    /\ resp' = PublishCatch(message)
    /\ pc' = "done"
    /\ UNCHANGED <<req, outbound>>

\* Lines 15-36: handleAssetProxy up to the fetch of line 34.
handleAssetProxy ==
    /\ pc = "idle"
    /\ \E r \in AssetRequests :
        /\ req' = r
        /\ IF ValidateAssetUrl(r.assetUrl) # NoResp
           THEN /\ resp' = ValidateAssetUrl(r.assetUrl)
                /\ pc' = "done"
           ELSE /\ resp' = resp
                /\ pc' = "assetFetch"
        /\ UNCHANGED <<outbound, upstream>>

\* Lines 38-48: the asset fetch resolved; a null-body status has no body.
AssetFetchResolved(status, headers) ==
    /\ pc = "assetFetch"
    /\ upstream' = UpstreamResponse(status, "")
    /\ resp' = ProxyAsset(status, headers,
                          IF status \in NullBodyStatus THEN NullBody ELSE StreamBody)
    /\ pc' = "done"
    /\ UNCHANGED <<req, outbound>>

\* Lines 49-54: the asset fetch threw.
AssetFetchRejected(message) ==
    /\ pc = "assetFetch"
    /\ upstream' = UpstreamThrow(message)
    /\ resp' = AssetCatch(message)
    /\ pc' = "done"
    /\ UNCHANGED <<req, outbound>>

\* Lines 180-200: static files, with the cross-origin headers set at the end.
ServeStatic ==
    /\ pc = "idle"
    /\ \E r \in StaticRequests, outcome \in StaticOutcomes :
        /\ req' = r
        /\ resp' = AddCors(StaticResponse(outcome))
        /\ pc' = "done"
        /\ UNCHANGED <<outbound, upstream>>

\* The response is handed to the transport; the next request starts afresh.
Return ==
    /\ pc = "done"
    /\ req' = NoReq
    /\ pc' = "idle"
    /\ outbound' = <<>>
    /\ upstream' = NoUpstream
    /\ resp' = NoResp

Next ==
    \/ ServeOptions
    \/ handlePublish
    \/ \E s \in UpstreamStatuses, t \in UpstreamBodies : PublishFetchResolved(s, t)
    \/ \E m \in FetchErrors : PublishFetchRejected(m)
    \/ handleAssetProxy
    \/ \E s \in AssetStatuses, h \in AssetHeaders : AssetFetchResolved(s, h)
    \/ \E m \in FetchErrors : AssetFetchRejected(m)
    \/ ServeStatic
    \/ Return

Spec == Init /\ [][Next]_vars

(***************************************************************************)
(* Vocabulary of the properties.                                           *)
(***************************************************************************)
\* A POST /publish request is being handled or has been answered.
InPublish == pc # "idle" /\ Route(req.method, req.path) = "publish"

RequiredFields == {"placeFile", "apiKey", "universeId", "placeId", "versionType"}

SomeFieldAbsent(form) == \E f \in RequiredFields : form[f].kind = "absent"

\* All five fields were sent with a value, placeFile as a file.
AllFieldsGiven(form) ==
    /\ form.parsed
    /\ form.placeFile.kind = "file"
    /\ \A f \in RequiredFields \ {"placeFile"} :
            form[f].kind = "string" /\ form[f].value # ""

UploadedName == req.form.placeFile.name
UploadedBytes == req.form.placeFile.data

\* The gateway answered 400 with a JSON body and sent nothing upstream.
Rejected400 ==
    /\ pc = "done"
    /\ resp.status = 400
    /\ resp.headers["content-type"] = "application/json"
    /\ outbound = <<>>

RejectedWith(message) ==
    Rejected400 /\ resp.body = TextBody("{\"error\":\"" \o message \o "\"}")

XmlHeaderError ==
    "RBXLX must start with <roblox (XML declaration allowed); got invalid XML header"

\* C1: a POST /publish form that lacks one of the five required fields is
\* answered 400 with the JSON error body, and no outbound request is made
\* while it is handled.
C1_MissingFieldRejected ==
    (InPublish /\ req.form.parsed /\ SomeFieldAbsent(req.form))
        => RejectedWith("Missing required form fields")

\* C1 happens: only versionType is absent, the file itself is a valid .rbxl.
C1_Witness ==
    /\ InPublish
    /\ req.form.parsed
    /\ req.form.versionType.kind = "absent"
    /\ \A f \in RequiredFields \ {"versionType"} : Truthy(req.form[f])
    /\ UploadedName = <<"p", ".", "r", "b", "x", "l">>
    /\ UploadedBytes = expected
    /\ Rejected400

\* C2: when the fetch of a validated publish request throws, the caller gets
\* 502 with a JSON error body.
C2_FetchFailureIs502 ==
    (InPublish /\ pc = "done" /\ upstream.kind = "throw")
        => /\ resp.status = 502
           /\ resp.headers["content-type"] = "application/json"

\* The 14 bytes 3C 72 6F 62 6C 6F 78 21 89 FF 0D 0A 1A 0A.
MagicSignature == <<60, 114, 111, 98, 108, 111, 120, 33, 137, 255, 13, 10, 26, 10>>

HasSignature(bytes) ==
    Len(bytes) >= Len(MagicSignature)
        /\ SubSeq(bytes, 1, Len(MagicSignature)) = MagicSignature

\* The upload was taken as the binary format / as the XML format.
DeclaredBinary == ext(req.form.placeFile) = <<"r", "b", "x", "l">>
DeclaredXml == ext(req.form.placeFile) = <<"r", "b", "x", "l", "x">>

\* C3: a .rbxl upload with all fields given whose non-empty payload does not
\* begin with the 14 signature bytes (shorter payloads included) is answered
\* 400 with nothing sent upstream; an upstream request for a .rbxl upload
\* exists only when the payload begins with the signature.
C3_SignatureGuardsUpstream ==
    (InPublish /\ AllFieldsGiven(req.form) /\ DeclaredBinary)
        => /\ (UploadedBytes # <<>> /\ ~HasSignature(UploadedBytes))
                => RejectedWith("RBXL signature mismatch. Ensure you're sending a valid .rbxl file.")
           /\ outbound # <<>> => HasSignature(UploadedBytes)

\* C3 happens: a payload of the first 13 signature bytes is rejected.
C3_Witness ==
    /\ InPublish
    /\ AllFieldsGiven(req.form)
    /\ DeclaredBinary
    /\ UploadedBytes = SubSeq(MagicSignature, 1, 13)
    /\ Rejected400
    /\ resp.site = 116

\* The decoded prefix of the upload that the XML check reads.
UploadedText == Decode(Slice(UploadedBytes, 2048))

\* A leading <?xml ... ?> declaration removed, up to and including its ?>.
SkipDeclaration(text) ==
    IF StartsWith(text, XmlDeclOpen) /\ IndexOf(text, XmlDeclClose) # -1
    THEN Substring(text, IndexOf(text, XmlDeclClose) + 2)
    ELSE text

\* The XML check is reached: every earlier check of the pipeline passed.
XmlChecked ==
    InPublish /\ AllFieldsGiven(req.form) /\ DeclaredXml /\ UploadedBytes # <<>>

\* C4 as stated: the .rbxlx upload <robloxBAD>... is answered 400 with the
\* XML-header error and nothing is sent upstream.
C4_RobloxBadRejected ==
    (XmlChecked /\ UploadedBytes = RobloxBad) => RejectedWith(XmlHeaderError)

\* C4 amended: a .rbxlx upload without an XML declaration is rejected with the
\* XML-header error exactly when its text, leading whitespace trimmed, does
\* not start with the characters <roblox; <robloxBAD>... starts with them, so
\* it passes validation and is sent upstream.
C4_PrefixDecides ==
    (XmlChecked /\ ~StartsWith(TrimStart(UploadedText), XmlDeclOpen))
        => /\ RejectedWith(XmlHeaderError)
                <=> ~StartsWith(TrimStart(UploadedText), RobloxTag)
           /\ UploadedBytes = RobloxBad
                => /\ outbound = <<PublishRequest(req.form)>>
                   /\ resp.site # 106

\* C4 happens: <robloxBAD>... has been sent upstream as a .rbxlx upload.
C4_Witness ==
    /\ XmlChecked
    /\ UploadedBytes = RobloxBad
    /\ pc = "publishFetch"
    /\ Len(outbound) = 1

\* C5 as stated: the declaration is skipped only at the very start of the
\* text, then leading whitespace is trimmed; the upload is rejected exactly
\* when the rest does not start with <roblox.
C5_DeclarationThenTrim ==
    XmlChecked
        => /\ RejectedWith(XmlHeaderError)
                <=> ~StartsWith(TrimStart(SkipDeclaration(UploadedText)), RobloxTag)
           /\ UploadedBytes = XmlWithDeclaration => outbound # <<>>

\* C5 amended: leading whitespace is trimmed, then an optional declaration is
\* skipped, then leading whitespace is trimmed again; the upload is rejected
\* with 400 exactly when the rest does not start with <roblox, and
\* <?xml version="1.0"?><roblox>...</roblox> is sent upstream.
C5_TrimDeclarationTrim ==
    XmlChecked
        => /\ RejectedWith(XmlHeaderError)
                <=> ~StartsWith(TrimStart(SkipDeclaration(TrimStart(UploadedText))),
                                RobloxTag)
           /\ ~RejectedWith(XmlHeaderError) => outbound = <<PublishRequest(req.form)>>
           /\ UploadedBytes = XmlWithDeclaration => outbound # <<>>

\* C5 happens: whitespace, a declaration, whitespace and <roblox> were sent
\* upstream.
C5_Witness ==
    /\ XmlChecked
    /\ UploadedBytes = SpaceBeforeDeclaration
    /\ pc = "publishFetch"
    /\ Len(outbound) = 1

\* The file name has no '.', or the text after its last '.' is neither rbxl
\* nor rbxlx (in any letter case).
NoAcceptedExtension(name) ==
    \/ \A i \in 1..Len(name) : name[i] # "."
    \/ ToLowerCase(SubSeq(name,
                          (CHOOSE i \in 1..Len(name) :
                              name[i] = "." /\ \A j \in (i + 1)..Len(name) : name[j] # ".") + 1,
                          Len(name)))
            \notin {<<"r", "b", "x", "l">>, <<"r", "b", "x", "l", "x">>}

\* C6: with all five fields given, an upload whose name has no extension or
\* an extension other than rbxl and rbxlx is answered 400 and nothing is sent
\* upstream.
C6_NoExtensionRejected ==
    (InPublish /\ AllFieldsGiven(req.form) /\ NoAcceptedExtension(UploadedName))
        => Rejected400

\* The JSON body the caller is to get for an upstream body: the parsed body
\* re-serialised when it is JSON, the raw text under "message" otherwise.
PassedThroughBody(text) ==
    CASE text = "" -> "{\"message\":\"\"}"
      [] text = "OK" -> "{\"message\":\"OK\"}"
      [] text = "<html>busy</html>" -> "{\"message\":\"<html>busy</html>\"}"
      [] text = "say \"hi\"" -> "{\"message\":\"say \\\"hi\\\"\"}"
      [] text = "{\"versionNumber\": 7}" -> "{\"versionNumber\":7}"
      [] text = "{\"error\":\"denied\"}" -> "{\"error\":\"denied\"}"
      [] text = " null " -> "null"

\* C7: whatever status and body the versioning API answers with, the caller
\* gets that status and a JSON body: the parsed upstream body, or
\* {message: <raw text>} when the body is not JSON.
C7_UpstreamPassedThrough ==
    (InPublish /\ pc = "done" /\ upstream.kind = "response")
        => /\ resp.status = upstream.status
           /\ resp.headers["content-type"] = "application/json"
           /\ resp.body = TextBody(PassedThroughBody(upstream.text))

\* The messages of the errors the handlers report.
ThrownMessages ==
    FetchErrors \cup
        { "Body can not be decoded as form data",
          "Response with null body status cannot have body",
          "The status provided is outside the range [200, 599]" }

ErrorTexts ==
    { "Missing required form fields",
      "No selected file or file type not allowed (.rbxl, .rbxlx only)",
      "Uploaded file is empty",
      XmlHeaderError,
      "RBXL signature mismatch. Ensure you're sending a valid .rbxl file.",
      "No asset URL provided",
      "Invalid asset URL" }
        \cup {"Server error: " \o m : m \in ThrownMessages}
        \cup {"Failed to fetch asset: " \o m : m \in ThrownMessages}

\* The body is the JSON text of an object whose one field, error, is a string.
IsErrorObject(body) ==
    body.kind = "text" /\ \E m \in ErrorTexts : body.text = "{\"error\":\"" \o m \o "\"}"

\* The response is an upstream response handed on (lines 149 and 44).
PassedThrough == resp.site \in {149, 44}

\* The response is a static file that was found, or the preflight answer.
Success == resp.status < 400

\* C8 as stated: every error response the gateway builds itself, static-file
\* 404 and 500 included, has a JSON body with the single string field error.
C8_EveryErrorIsJson ==
    (pc = "done" /\ ~PassedThrough /\ ~Success) => IsErrorObject(resp.body)

\* C8 amended: every error response that the publish and asset handlers build
\* themselves has a JSON body with the single string field error and the JSON
\* content type; the static-file 404 and 500 responses carry the plain texts
\* "Not Found" and "Internal Server Error".
C8_HandlerErrorsAreJson ==
    (pc = "done" /\ ~PassedThrough /\ ~Success)
        => IF Route(req.method, req.path) \in {"publish", "asset"}
           THEN /\ IsErrorObject(resp.body)
                /\ resp.headers["content-type"] = "application/json"
           ELSE /\ Route(req.method, req.path) = "static"
                /\ resp.body \in {TextBody("Not Found"), TextBody("Internal Server Error")}

\* C8 happens: the catch block of the publish handler answered a failed fetch.
C8_Witness ==
    /\ InPublish
    /\ pc = "done"
    /\ upstream.kind = "throw"
    /\ resp.site = 155
    /\ IsErrorObject(resp.body)

HasCors(headers) ==
    /\ {"access-control-allow-origin", "access-control-allow-headers",
        "access-control-allow-methods"} \subseteq DOMAIN headers
    /\ headers["access-control-allow-origin"] = "*"
    /\ headers["access-control-allow-headers"] = "Content-Type"
    /\ headers["access-control-allow-methods"] = "POST, GET, OPTIONS"

C10_BodyAndContentType ==
    \A i \in 1..Len(outbound) :
        /\ outbound[i].body = UploadedBytes
        /\ \/ DeclaredBinary /\ outbound[i].headers["content-type"] = "application/octet-stream"
           \/ DeclaredXml /\ outbound[i].headers["content-type"] = "application/xml"

\* C10 happens: a .rbxlx upload longer than the validated prefix was sent.
C10_Witness ==
    /\ Len(outbound) = 1
    /\ DeclaredXml
    /\ Len(UploadedBytes) > 2048
    /\ outbound[1].headers["content-type"] = "application/xml"

====
